---- MODULE Spec2Model ----
(***************************************************************************)
(* The hash-chained threat log of blockchain_server.py: Block, Blockchain  *)
(* (start-up load, add_block, save_chain, verify_chain) and the /reset     *)
(* handler, together with the persisted document blockchain.json, which    *)
(* anybody with access to the disk can edit behind the process's back.     *)
(*                                                                         *)
(* SHA-256 over canonical JSON is modelled as an injective constructor:    *)
(* the digest of x is the tuple <<"sha", x...>>, so two digests are equal  *)
(* exactly when their inputs are.  Every hash-typed field is a tuple:      *)
(*   <<>>          the empty string / null (falsy in Python)               *)
(*   <<"0">>       the sentinel "0" of the genesis block                   *)
(*   <<"junk">>    some hex string that is nobody's digest                 *)
(*   <<"sha", d>>  sha256(json.dumps(d, sort_keys=True))                   *)
(*   <<"sha", dh, prev, ts>>  sha256 of the three-field block string       *)
(* Timestamps are the seconds of a clock that starts at 1; 0 stands for a  *)
(* falsy timestamp (None, "", 0).                                          *)
(***************************************************************************)
EXTENDS Integers, Sequences, FiniteSets, TLC

\* ---------------------------------------------------------------- bounds
MaxLen == 3       \* add_block is not offered once the chain holds MaxLen blocks
MaxClock == 2     \* the clock stops ticking at MaxClock
MaxData == 2      \* threat payloads are 1..MaxData
MaxEdits == 2     \* external edits of the persisted document in one behaviour
NumHandlers == 2  \* concurrent requests, each running one operation

VARIABLES
    file,     \* the persisted document blockchain.json
    chain,    \* Blockchain.chain, the in-memory list of Block objects
    phase,    \* "down": no process; "up": the module-level Blockchain() exists
    clock,    \* datetime.now(timezone.utc), in seconds
    ret,      \* history: the step just taken and what it returned
    ghost,    \* history: the single-field edit made just before a start-up
    edits,    \* history: number of external edits so far
    pc,       \* per request thread: where it stands in its operation
    hop,      \* per request thread: "none", "add", "verify" or "reset"
    harg,     \* per request thread: the payload handed to add_block
    nb,       \* per request thread: add_block's local new_block
    buf,      \* per request thread: save_chain's local data
    lock,     \* FileLock(blockchain.json.lock): 0 or the thread holding it
    hok       \* per request thread: what its operation returned

hvars == <<pc, hop, harg, nb, buf, lock, hok>>

vars == <<file, chain, phase, clock, ret, ghost, edits, pc, hop, harg, nb, buf, lock, hok>>

\* ------------------------------------------------------------- constants
BLOCKCHAIN_VERSION == "1.0"
RESET_BLOCKCHAIN == FALSE
OtherVersion == "0.9"

GenesisData == 0                       \* {"type": "genesis", "message": ...}
Payloads == 0..MaxData                 \* what add_block may be handed
NoTs == 0                              \* timestamp=None (falsy)
Empty == <<>>                          \* data_hash=None / block_hash=None / ""
Zero == <<"0">>
Junk == <<"junk">>

Fields == {"data", "previous_hash", "timestamp", "data_hash", "hash"}

\* ------------------------------------------------------------------ Block
calculate_data_hash(data) == <<"sha", data>>

calculate_hash(data_hash, previous_hash, timestamp) ==
    <<"sha", data_hash, previous_hash, timestamp>>

\* A Block.__init__ that hashes the timestamp it was handed, before the
\* default "now" is filled in.
BlockHashStale(data, previous_hash, timestamp, data_hash, block_hash, now) ==
    LET dh == IF data_hash = Empty THEN calculate_data_hash(data) ELSE data_hash
    IN  [data |-> data,
         previous_hash |-> previous_hash,
         timestamp |-> IF timestamp = NoTs THEN now ELSE timestamp,
         data_hash |-> dh,
         hash |-> IF block_hash = Empty
                  THEN calculate_hash(dh, previous_hash, timestamp)
                  ELSE block_hash]

\* Block.__init__: a falsy timestamp, data_hash or block_hash is derived.
Block(data, previous_hash, timestamp, data_hash, block_hash, now) ==
    LET ts == IF timestamp = NoTs THEN now ELSE timestamp
        dh == IF data_hash = Empty THEN calculate_data_hash(data) ELSE data_hash
        h  == IF block_hash = Empty
              THEN calculate_hash(dh, previous_hash, ts)
              ELSE block_hash
    IN  [data |-> data,
         previous_hash |-> previous_hash,
         timestamp |-> ts,
         data_hash |-> dh,
         hash |-> h]

\* Block.to_dict: the five fields; absent is the set of keys the JSON object
\* lacks (none for a dict the program wrote).
to_dict(b) ==
    [data |-> b.data,
     previous_hash |-> b.previous_hash,
     timestamp |-> b.timestamp,
     data_hash |-> b.data_hash,
     hash |-> b.hash,
     absent |-> {}]

create_genesis_block(now) == Block(GenesisData, Zero, NoTs, Empty, Empty, now)

\* ------------------------------------------------------ persisted document
AbsentFile  == [kind |-> "absent",  version |-> "", chain |-> <<>>]
CorruptFile == [kind |-> "corrupt", version |-> "", chain |-> <<>>]
ListFile    == [kind |-> "list",    version |-> "", chain |-> <<>>]
\* open(BLOCKCHAIN_FILE, "w") has truncated the file, json.dump has not run.
PartialFile == [kind |-> "partial", version |-> "", chain |-> <<>>]

\* save_chain: the whole chain replaces the document.
save_chain(c) ==
    [kind |-> "doc",
     version |-> BLOCKCHAIN_VERSION,
     chain |-> [i \in 1..Len(c) |-> to_dict(c[i])]]

\* ------------------------------------------------------------------- load
\* _validate_and_load_blocks, from entry i on with the blocks accepted so far.
\* Building Block(...) reads all five keys, so a missing key raises KeyError
\* before the hash of that entry is looked at.
RECURSIVE validate_from(_, _, _, _)
validate_from(blocks_data, i, acc, now) ==
    IF i > Len(blocks_data) THEN [none |-> FALSE, chain |-> acc]
    ELSE LET block == blocks_data[i] IN
         IF block.absent # {} THEN [none |-> TRUE, chain |-> <<>>]
         ELSE LET b == Block(block.data, block.previous_hash, block.timestamp,
                             block.data_hash, block.hash, now)
              IN  IF calculate_hash(b.data_hash, b.previous_hash, b.timestamp) # block.hash
                  THEN [none |-> FALSE,
                        chain |-> IF i > 1 THEN SubSeq(acc, 1, i - 1)
                                  ELSE <<create_genesis_block(now)>>]
                  ELSE validate_from(blocks_data, i + 1, Append(acc, b), now)

validate_and_load_blocks(blocks_data, now) == validate_from(blocks_data, 1, <<>>, now)

\* load_chain: None (none |-> TRUE) or a list of blocks.
load_chain(f, now) ==
    CASE f.kind = "absent"  -> [none |-> TRUE, chain |-> <<>>]
      [] f.kind \in {"corrupt", "partial"} ->
            [none |-> FALSE, chain |-> <<create_genesis_block(now)>>]
      [] f.kind = "list"    -> [none |-> TRUE, chain |-> <<>>]
      [] OTHER -> IF f.version # BLOCKCHAIN_VERSION
                  THEN [none |-> TRUE, chain |-> <<>>]
                  ELSE validate_and_load_blocks(f.chain, now)

\* ----------------------------------------------------------------- verify
\* _verify_block: "ok" (True), "bad" (False) or "raise" (KeyError on a
\* missing key), in the order the code reads the keys.
verify_block(current_block, previous_block) ==
    IF {"data", "data_hash"} \cap previous_block.absent # {} THEN "raise"
    ELSE IF calculate_data_hash(previous_block.data) # previous_block.data_hash THEN "bad"
    ELSE IF {"previous_hash", "timestamp", "hash"} \cap previous_block.absent # {} THEN "raise"
    ELSE IF calculate_hash(calculate_data_hash(previous_block.data),
                           previous_block.previous_hash,
                           previous_block.timestamp) # previous_block.hash THEN "bad"
    ELSE IF "previous_hash" \in current_block.absent THEN "raise"
    ELSE IF current_block.previous_hash # previous_block.hash THEN "bad"
    ELSE IF {"data", "data_hash"} \cap current_block.absent # {} THEN "raise"
    ELSE IF calculate_data_hash(current_block.data) # current_block.data_hash THEN "bad"
    ELSE IF {"timestamp", "hash"} \cap current_block.absent # {} THEN "raise"
    ELSE IF calculate_hash(calculate_data_hash(current_block.data),
                           current_block.previous_hash,
                           current_block.timestamp) = current_block.hash THEN "ok"
    ELSE "bad"

\* The loop of verify_chain from Python index i on (entry i is blockchain[i+1]).
RECURSIVE verify_from(_, _)
verify_from(blockchain, i) ==
    IF i >= Len(blockchain) THEN [ok |-> TRUE, index |-> -1]
    ELSE LET r == verify_block(blockchain[i + 1], blockchain[i]) IN
         IF r = "raise" THEN [ok |-> FALSE, index |-> -1]
         ELSE IF r = "bad" THEN [ok |-> FALSE, index |-> i]
         ELSE verify_from(blockchain, i + 1)

\* verify_chain: (True, ...), (False, "Invalid block at index i") or, on any
\* exception (no file, no JSON, no "chain" key, a missing key), (False,
\* "Error verifying chain: ...") which names no index (index -1).
verify_chain(f) ==
    IF f.kind # "doc" THEN [ok |-> FALSE, index |-> -1]
    ELSE verify_from(f.chain, 1)

\* ---------------------------------------------------------------- history
NoGhost == [kind |-> "none", i |-> 0, field |-> "", before |-> <<>>]

\* Request threads and their locals before they run.
Threads == 1..NumHandlers
NoBlock == [data |-> -1, previous_hash |-> Empty, timestamp |-> NoTs,
            data_hash |-> Empty, hash |-> Empty]
NoBuf == AbsentFile

ThreadsIdle ==
    /\ pc = [p \in Threads |-> "idle"]
    /\ hop = [p \in Threads |-> "none"]
    /\ harg = [p \in Threads |-> -1]
    /\ nb = [p \in Threads |-> NoBlock]
    /\ buf = [p \in Threads |-> NoBuf]
    /\ lock = 0
    /\ hok = [p \in Threads |-> TRUE]

Ret(op, arg, ok, index, store) ==
    [op |-> op, arg |-> arg, ok |-> ok, index |-> index, store |-> store]

\* What start-up finds on disk.
StoreCondition(f) ==
    IF f.kind # "doc" THEN f.kind
    ELSE IF f.version # BLOCKCHAIN_VERSION THEN "version" ELSE "doc"

Init ==
    /\ file = AbsentFile
    /\ chain = <<>>
    /\ phase = "down"
    /\ clock = 1
    /\ ret = Ret("none", -1, TRUE, -1, "")
    /\ ghost = NoGhost
    /\ edits = 0
    /\ ThreadsIdle

\* ---------------------------------------------------------------- actions
\* blockchain = Blockchain(): Blockchain.__init__
Start ==
    /\ phase = "down"
    /\ LET f0 == IF RESET_BLOCKCHAIN /\ file.kind # "absent" THEN AbsentFile ELSE file
           loaded == load_chain(f0, clock)
       IN  IF loaded.none \/ loaded.chain = <<>>
           THEN /\ chain' = <<create_genesis_block(clock)>>
                /\ file' = save_chain(chain')
           ELSE /\ chain' = loaded.chain
                /\ file' = f0
    /\ phase' = "up"
    /\ ret' = Ret("init", -1, TRUE, -1, StoreCondition(file))
    /\ UNCHANGED <<clock, ghost, edits>>
    /\ UNCHANGED hvars

\* The process ends; the document stays.
Stop ==
    /\ phase = "up"
    /\ phase' = "down"
    /\ chain' = <<>>
    /\ ret' = Ret("stop", -1, TRUE, -1, "")
    /\ ghost' = NoGhost
    /\ UNCHANGED <<file, clock, edits>>
    /\ UNCHANGED hvars

Tick ==
    /\ clock < MaxClock
    /\ clock' = clock + 1
    /\ ret' = Ret("env", -1, TRUE, -1, "")
    /\ ghost' = NoGhost
    /\ UNCHANGED <<file, chain, phase, edits>>
    /\ UNCHANGED hvars

\* A duplicate check that skips the genesis block.
is_duplicate_after_genesis(c, data) ==
    \E i \in 2..Len(c) : c[i].data_hash = calculate_data_hash(data)

\* add_block, line 102: some block already carries this data_hash.
is_duplicate(c, data) ==
    \E i \in 1..Len(c) : c[i].data_hash = calculate_data_hash(data)

\* A new block that points at the head, self.chain[0].
new_block_on_head(c, data, now) == Block(data, c[1].hash, NoTs, Empty, Empty, now)

\* add_block, line 105: the new block points at the tail, self.chain[-1].
new_block(c, data, now) == Block(data, c[Len(c)].hash, NoTs, Empty, Empty, now)

\* Blockchain.add_block(data), run to completion.
AddBlock(data) ==
    /\ phase = "up"
    /\ Len(chain) < MaxLen
    /\ IF is_duplicate(chain, data)
       THEN /\ ret' = Ret("add", data, FALSE, -1, "")
            /\ UNCHANGED <<chain, file>>
       ELSE /\ chain' = Append(chain, new_block(chain, data, clock))
            /\ file' = save_chain(chain')
            /\ ret' = Ret("add", data, TRUE, -1, "")
    /\ ghost' = NoGhost
    /\ UNCHANGED <<phase, clock, edits>>
    /\ UNCHANGED hvars

\* A verify_chain that writes back what it could validate.
VerifyChainRepairs ==
    /\ phase = "up"
    /\ LET r == verify_chain(file) IN
        /\ ret' = Ret("verify", -1, r.ok, r.index, "")
        /\ file' = IF r.ok THEN file ELSE save_chain(chain)
    /\ ghost' = NoGhost
    /\ UNCHANGED <<chain, phase, clock, edits>>
    /\ UNCHANGED hvars

\* Blockchain.verify_chain(), run to completion: it only reads the document.
VerifyChain ==
    /\ phase = "up"
    /\ LET r == verify_chain(file) IN
        ret' = Ret("verify", -1, r.ok, r.index, "")
    /\ ghost' = NoGhost
    /\ UNCHANGED <<file, chain, phase, clock, edits>>
    /\ UNCHANGED hvars

\* A /reset that forgets blockchain.save_chain().
ResetWithoutSave ==
    /\ phase = "up"
    /\ chain' = <<create_genesis_block(clock)>>
    /\ ret' = Ret("reset", Len(chain), TRUE, -1, "")
    /\ ghost' = NoGhost
    /\ UNCHANGED <<file, phase, clock, edits>>
    /\ UNCHANGED hvars

\* reset_blockchain (POST /reset), run to completion; ret.arg keeps the
\* length of the chain it discarded.
Reset ==
    /\ phase = "up"
    /\ chain' = <<create_genesis_block(clock)>>
    /\ file' = save_chain(chain')
    /\ ret' = Ret("reset", Len(chain), TRUE, -1, "")
    /\ ghost' = NoGhost
    /\ UNCHANGED <<phase, clock, edits>>
    /\ UNCHANGED hvars

\* ------------------------------------------- external edits of the document
\* The document as load and verify both accept it in full.
ValidStored(f) ==
    /\ f.kind = "doc"
    /\ f.version = BLOCKCHAIN_VERSION
    /\ Len(f.chain) >= 1
    /\ f.chain[1].previous_hash = Zero
    /\ \A i \in 1..Len(f.chain) :
          /\ f.chain[i].absent = {}
          /\ f.chain[i].timestamp # NoTs
          /\ f.chain[i].data_hash = calculate_data_hash(f.chain[i].data)
          /\ f.chain[i].hash = calculate_hash(f.chain[i].data_hash,
                                              f.chain[i].previous_hash,
                                              f.chain[i].timestamp)
          /\ i > 1 => f.chain[i].previous_hash = f.chain[i - 1].hash

\* The values an editor may put into field fld of entry i: another payload,
\* another second (or none), and for the digests: nothing, a made-up string,
\* "0", the predecessor's hash, or the digest recomputed from the entry as it
\* now stands (which makes the entry self-consistent again).
FieldValues(c, i, fld) ==
    CASE fld = "data" -> Payloads
      [] fld = "timestamp" -> 0..MaxClock
      [] fld = "data_hash" -> {Empty, Junk, calculate_data_hash(c[i].data)}
      [] fld = "hash" -> {Empty, Junk,
                          calculate_hash(c[i].data_hash, c[i].previous_hash, c[i].timestamp)}
      [] OTHER -> {Zero, Junk} \cup (IF i > 1 THEN {c[i - 1].hash} ELSE {})

CanEdit == edits < MaxEdits /\ file.kind = "doc"

EditField(i, fld, v) ==
    /\ CanEdit
    /\ i \in 1..Len(file.chain)
    /\ fld \notin file.chain[i].absent
    /\ v \in FieldValues(file.chain, i, fld)
    /\ v # file.chain[i][fld]
    /\ file' = [file EXCEPT !.chain[i][fld] = v]
    /\ ghost' = IF phase = "down" /\ ValidStored(file)
                THEN [kind |-> "edit", i |-> i, field |-> fld, before |-> file.chain]
                ELSE NoGhost
    /\ edits' = edits + 1
    /\ ret' = Ret("env", -1, TRUE, -1, "")
    /\ UNCHANGED <<chain, phase, clock>>
    /\ UNCHANGED hvars

\* A key is removed from entry i (its value is forgotten).
RemoveField(i, fld) ==
    /\ CanEdit
    /\ i \in 1..Len(file.chain)
    /\ fld \notin file.chain[i].absent
    /\ file' = [file EXCEPT !.chain[i][fld] =
                                IF fld \in {"data", "timestamp"} THEN 0 ELSE Empty,
                            !.chain[i].absent = @ \cup {fld}]
    /\ edits' = edits + 1
    /\ ret' = Ret("env", -1, TRUE, -1, "")
    /\ ghost' = NoGhost
    /\ UNCHANGED <<chain, phase, clock>>
    /\ UNCHANGED hvars

\* Entry i is cut out of the chain array.
DeleteEntry(i) ==
    /\ CanEdit
    /\ i \in 1..Len(file.chain)
    /\ file' = [file EXCEPT !.chain =
                    [k \in 1..(Len(file.chain) - 1) |->
                        IF k < i THEN file.chain[k] ELSE file.chain[k + 1]]]
    /\ edits' = edits + 1
    /\ ret' = Ret("env", -1, TRUE, -1, "")
    /\ ghost' = NoGhost
    /\ UNCHANGED <<chain, phase, clock>>
    /\ UNCHANGED hvars

\* The document is replaced: by bytes that are no JSON, by a legacy JSON
\* list, or it is removed.
ReplaceFile(f) ==
    /\ edits < MaxEdits
    /\ f \in {CorruptFile, ListFile, AbsentFile}
    /\ f # file
    /\ file' = f
    /\ edits' = edits + 1
    /\ ret' = Ret("env", -1, TRUE, -1, "")
    /\ ghost' = NoGhost
    /\ UNCHANGED <<chain, phase, clock>>
    /\ UNCHANGED hvars

\* The version tag is changed.
SetVersion(v) ==
    /\ CanEdit
    /\ v \in {BLOCKCHAIN_VERSION, OtherVersion}
    /\ v # file.version
    /\ file' = [file EXCEPT !.version = v]
    /\ edits' = edits + 1
    /\ ret' = Ret("env", -1, TRUE, -1, "")
    /\ ghost' = NoGhost
    /\ UNCHANGED <<chain, phase, clock>>
    /\ UNCHANGED hvars

\* ---------------------------------------------------------- specifications
\* The program alone: nobody else touches the document.
Handlers ==
    \/ Start
    \/ Stop
    \/ Tick
    \/ \E data \in Payloads : AddBlock(data)
    \/ VerifyChain
    \/ Reset

SpecClean == Init /\ [][Handlers]_vars

\* The program and an editor of the document (at most MaxEdits edits).
Next ==
    \/ Start
    \/ Stop
    \/ Tick
    \/ \E data \in Payloads : AddBlock(data)
    \/ VerifyChain
    \/ Reset
    \/ \E i \in 1..Len(file.chain), fld \in Fields :
          \E v \in FieldValues(file.chain, i, fld) : EditField(i, fld, v)
    \/ \E i \in 1..Len(file.chain), fld \in Fields : RemoveField(i, fld)
    \/ \E i \in 1..Len(file.chain) : DeleteEntry(i)
    \/ \E f \in {CorruptFile, ListFile, AbsentFile} : ReplaceFile(f)
    \/ \E v \in {BLOCKCHAIN_VERSION, OtherVersion} : SetVersion(v)

Spec == Init /\ [][Next]_vars

\* The program and an editor who edits the document once.
NextOneEdit ==
    \/ Start
    \/ Stop
    \/ Tick
    \/ \E data \in Payloads : AddBlock(data)
    \/ VerifyChain
    \/ Reset
    \/ /\ edits = 0
       /\ \E i \in 1..Len(file.chain), fld \in Fields :
            \E v \in FieldValues(file.chain, i, fld) : EditField(i, fld, v)
    \/ /\ edits = 0
       /\ \E i \in 1..Len(file.chain), fld \in Fields : RemoveField(i, fld)
    \/ /\ edits = 0
       /\ \E i \in 1..Len(file.chain) : DeleteEntry(i)
    \/ /\ edits = 0
       /\ \E f \in {CorruptFile, ListFile, AbsentFile} : ReplaceFile(f)
    \/ /\ edits = 0
       /\ \E v \in {BLOCKCHAIN_VERSION, OtherVersion} : SetVersion(v)

SpecOneEdit == Init /\ [][NextOneEdit]_vars

\* ------------------------------------------------- concurrent requests
\* Flask serves each request on its own thread; the threads share the one
\* Blockchain instance.  A thread runs one operation, statement by statement;
\* only the body of "with FileLock(...)" is exclusive.

\* Threads are numbered in the order their requests arrive.
Arrives(p) ==
    /\ phase = "up"
    /\ pc[p] = "idle"
    /\ \A q \in Threads : q < p => pc[q] # "idle"

\* add_block, lines 101-103: the duplicate check on the chain as it is now.
AddCheck(p, data) ==
    /\ Arrives(p)
    /\ Len(chain) < MaxLen
    /\ hop' = [hop EXCEPT ![p] = "add"]
    /\ harg' = [harg EXCEPT ![p] = data]
    /\ IF is_duplicate(chain, data)
       THEN /\ pc' = [pc EXCEPT ![p] = "done"]
            /\ hok' = [hok EXCEPT ![p] = FALSE]
       ELSE /\ pc' = [pc EXCEPT ![p] = "a_new"]
            /\ hok' = hok
    /\ UNCHANGED <<file, chain, phase, clock, ret, ghost, edits, nb, buf, lock>>

\* add_block, line 105: new_block is built on the tail as it is now.
AddNew(p) ==
    /\ pc[p] = "a_new"
    /\ nb' = [nb EXCEPT ![p] = new_block(chain, harg[p], clock)]
    /\ pc' = [pc EXCEPT ![p] = "a_app"]
    /\ UNCHANGED <<file, chain, phase, clock, ret, ghost, edits, hop, harg, buf, lock, hok>>

\* An append that links the block again when the tail has moved on.
AddAppendRelinks(p) ==
    /\ pc[p] = "a_app"
    /\ chain' = Append(chain, new_block(chain, harg[p], nb[p].timestamp))
    /\ pc' = [pc EXCEPT ![p] = "s_lock"]
    /\ UNCHANGED <<file, phase, clock, ret, ghost, edits, hop, harg, nb, buf, lock, hok>>

\* add_block, line 106: self.chain.append(new_block).
AddAppend(p) ==
    /\ pc[p] = "a_app"
    /\ chain' = Append(chain, nb[p])
    /\ pc' = [pc EXCEPT ![p] = "s_lock"]
    /\ UNCHANGED <<file, phase, clock, ret, ghost, edits, hop, harg, nb, buf, lock, hok>>

\* A /reset that leaves the list empty.
ResetSetEmpty(p) ==
    /\ Arrives(p)
    /\ hop' = [hop EXCEPT ![p] = "reset"]
    /\ chain' = <<>>
    /\ pc' = [pc EXCEPT ![p] = "s_lock"]
    /\ UNCHANGED <<file, phase, clock, ret, ghost, edits, harg, nb, buf, lock, hok>>

\* A /reset that forgets blockchain.save_chain().
ResetSetNoSave(p) ==
    /\ Arrives(p)
    /\ hop' = [hop EXCEPT ![p] = "reset"]
    /\ chain' = <<create_genesis_block(clock)>>
    /\ pc' = [pc EXCEPT ![p] = "done"]
    /\ UNCHANGED <<file, phase, clock, ret, ghost, edits, harg, nb, buf, lock, hok>>

\* reset_blockchain, line 339: the list is replaced by a new genesis block.
ResetSet(p) ==
    /\ Arrives(p)
    /\ hop' = [hop EXCEPT ![p] = "reset"]
    /\ chain' = <<create_genesis_block(clock)>>
    /\ pc' = [pc EXCEPT ![p] = "s_lock"]
    /\ UNCHANGED <<file, phase, clock, ret, ghost, edits, harg, nb, buf, lock, hok>>

\* save_chain, line 112: with FileLock(self.lock_file) waits for the lock.
SaveLock(p) ==
    /\ pc[p] = "s_lock"
    /\ lock = 0
    /\ lock' = p
    /\ pc' = [pc EXCEPT ![p] = "s_open"]
    /\ UNCHANGED <<file, chain, phase, clock, ret, ghost, edits, hop, harg, nb, buf, hok>>

\* save_chain, lines 113-117: data is built from the chain as it is now and
\* open(..., "w") truncates the document.
SaveOpen(p) ==
    /\ pc[p] = "s_open"
    /\ buf' = [buf EXCEPT ![p] = save_chain(chain)]
    /\ file' = PartialFile
    /\ pc' = [pc EXCEPT ![p] = "s_dump"]
    /\ UNCHANGED <<chain, phase, clock, ret, ghost, edits, hop, harg, nb, lock, hok>>

\* A save_chain that returns with the lock still held.
SaveDumpKeepsLock(p) ==
    /\ pc[p] = "s_dump"
    /\ file' = buf[p]
    /\ buf' = [buf EXCEPT ![p] = NoBuf]
    /\ pc' = [pc EXCEPT ![p] = "done"]
    /\ hok' = [hok EXCEPT ![p] = TRUE]
    /\ UNCHANGED <<chain, phase, clock, ret, ghost, edits, hop, harg, nb, lock>>

\* save_chain, line 118 and the end of the with block: json.dump writes
\* data, the lock is released, the operation returns.
SaveDump(p) ==
    /\ pc[p] = "s_dump"
    /\ file' = buf[p]
    /\ buf' = [buf EXCEPT ![p] = NoBuf]
    /\ lock' = 0
    /\ pc' = [pc EXCEPT ![p] = "done"]
    /\ hok' = [hok EXCEPT ![p] = TRUE]
    /\ UNCHANGED <<chain, phase, clock, ret, ghost, edits, hop, harg, nb>>

\* GET /verify arrives: verify_chain is called.
VerifyCall(p) ==
    /\ Arrives(p)
    /\ hop' = [hop EXCEPT ![p] = "verify"]
    /\ pc' = [pc EXCEPT ![p] = "v_lock"]
    /\ UNCHANGED <<file, chain, phase, clock, ret, ghost, edits, harg, nb, buf, lock, hok>>

\* A verify_chain that opens the document without taking the lock.
VerifyWithoutLock(p) ==
    /\ pc[p] = "v_lock"
    /\ pc' = [pc EXCEPT ![p] = "v_read"]
    /\ UNCHANGED <<file, chain, phase, clock, ret, ghost, edits, hop, harg, nb, buf, lock, hok>>

\* verify_chain, line 183: with FileLock(self.lock_file) waits for the lock.
VerifyLock(p) ==
    /\ pc[p] = "v_lock"
    /\ lock = 0
    /\ lock' = p
    /\ pc' = [pc EXCEPT ![p] = "v_read"]
    /\ UNCHANGED <<file, chain, phase, clock, ret, ghost, edits, hop, harg, nb, buf, hok>>

\* verify_chain, lines 184-194: the document is read and checked; on return
\* and on any exception the with block releases the lock.
VerifyRead(p) ==
    /\ pc[p] = "v_read"
    /\ hok' = [hok EXCEPT ![p] = verify_chain(file).ok]
    /\ lock' = IF lock = p THEN 0 ELSE lock
    /\ pc' = [pc EXCEPT ![p] = "done"]
    /\ UNCHANGED <<file, chain, phase, clock, ret, ghost, edits, hop, harg, nb, buf>>

\* The clock while requests are served.
ConcTick ==
    /\ phase = "up"
    /\ clock < MaxClock
    /\ clock' = clock + 1
    /\ UNCHANGED <<file, chain, phase, ret, ghost, edits>>
    /\ UNCHANGED hvars

ThreadStep(p) ==
    \/ AddNew(p)
    \/ AddAppend(p)
    \/ SaveLock(p)
    \/ SaveOpen(p)
    \/ SaveDump(p)
    \/ VerifyLock(p)
    \/ VerifyRead(p)

NextConc ==
    \/ Start
    \/ ConcTick
    \/ \E p \in Threads, data \in Payloads : AddCheck(p, data)
    \/ \E p \in Threads : AddNew(p)
    \/ \E p \in Threads : AddAppend(p)
    \/ \E p \in Threads : ResetSet(p)
    \/ \E p \in Threads : SaveLock(p)
    \/ \E p \in Threads : SaveOpen(p)
    \/ \E p \in Threads : SaveDump(p)
    \/ \E p \in Threads : VerifyCall(p)
    \/ \E p \in Threads : VerifyLock(p)
    \/ \E p \in Threads : VerifyRead(p)

\* Start-up from an absent store, then NumHandlers request threads in any
\* interleaving.
SpecConc == Init /\ [][NextConc]_vars

\* The requests of one second: the same steps with the clock standing
\* still. No guard of a handler step reads the clock, so which steps are
\* enabled, and hence whether a request returns, does not depend on it.
NextConcOneSecond ==
    \/ Start
    \/ \E p \in Threads, data \in Payloads : AddCheck(p, data)
    \/ \E p \in Threads : ResetSet(p)
    \/ \E p \in Threads : VerifyCall(p)
    \/ \E p \in Threads : ThreadStep(p)

\* Under a fair scheduler: a thread that can take a step is not held back
\* forever.
SpecConcFair ==
    /\ Init
    /\ [][NextConcOneSecond]_vars
    /\ WF_vars(Start)
    /\ \A p \in Threads : WF_vars(ThreadStep(p))

\* ------------------------------------------------------------------ claims
\* The Block a stored entry stands for when nothing in it is falsy.
from_dict(e) ==
    [data |-> e.data,
     previous_hash |-> e.previous_hash,
     timestamp |-> e.timestamp,
     data_hash |-> e.data_hash,
     hash |-> e.hash]

\* Entry i (counted from 1) of a stored sequence passes every check: the
\* recomputed data_hash and hash are the stored ones and, after the first
\* entry, previous_hash is the predecessor's hash.
EntryPasses(c, i) ==
    /\ c[i].absent = {}
    /\ calculate_data_hash(c[i].data) = c[i].data_hash
    /\ calculate_hash(calculate_data_hash(c[i].data), c[i].previous_hash,
                      c[i].timestamp) = c[i].hash
    /\ i > 1 => c[i].previous_hash = c[i - 1].hash

\* C1: after one field of entry i of a valid persisted chain is edited and
\* the process starts, the in-memory chain is the untouched entries before i,
\* or one fresh genesis block when i is the first entry.
C1_EditThenReloadTruncates ==
    (ret.op = "init" /\ ghost.kind = "edit") =>
        chain = IF ghost.i = 1
                THEN <<create_genesis_block(clock)>>
                ELSE [k \in 1..(ghost.i - 1) |-> from_dict(ghost.before[k])]

\* C2: with the program alone (start from an absent store, add_block and
\* reset one at a time), every block after the first carries the hash of
\* its predecessor as previous_hash.
C2_LinkInvariant ==
    phase = "up" =>
        \A i \in 2..Len(chain) : chain[i].previous_hash = chain[i - 1].hash

C2_Witness ==
    /\ ret.op = "add"
    /\ ret.ok
    /\ Len(chain) = 3
    /\ chain[3].previous_hash = chain[2].hash
    /\ chain[3].previous_hash # chain[1].hash

\* C3: once the process is up, whatever document it started from, the first
\* block of the in-memory chain has previous_hash "0".
C3_FirstPreviousHashIsZero ==
    (phase = "up" /\ Len(chain) > 0) => chain[1].previous_hash = Zero

\* C4: add_block(data), called while some block of the in-memory chain
\* carries the data hash of data, returns False and leaves the in-memory
\* chain and the persisted document as they were.
C4_DuplicateRejected ==
    [][(/\ ret'.op = "add"
        /\ \E i \in 1..Len(chain) : chain[i].data_hash = calculate_data_hash(ret'.arg))
       => (~ret'.ok /\ chain' = chain /\ file' = file)]_vars

C4_Witness ==
    /\ ret.op = "add"
    /\ ret.arg = GenesisData
    /\ ~ret.ok
    /\ Len(chain) >= 2

\* C5: with the program alone, verify_chain() reports valid whenever it is
\* called, and would report valid in every state the process is up in, the
\* genesis-only chain included.
C5_VerifyValidWhenUntouched ==
    /\ ret.op = "verify" => ret.ok
    /\ phase = "up" => verify_chain(file).ok

C5_Witness ==
    /\ ret.op = "verify"
    /\ ret.ok
    /\ Len(chain) = 3
    /\ file = save_chain(chain)

\* C6: verify_chain() reports valid only if every entry of the stored
\* sequence, the first one and a lone one included, passes every check.
C6_ValidOnlyIfEveryEntryPasses ==
    (ret.op = "verify" /\ ret.ok) =>
        /\ file.kind = "doc"
        /\ \A i \in 1..Len(file.chain) : EntryPasses(file.chain, i)

\* C7: when verify_chain() reports an invalid block, the index it names
\* (counted from 0) is the smallest index whose entry fails a check.
C7_ReportsSmallestFailingIndex ==
    (ret.op = "verify" /\ ~ret.ok /\ ret.index >= 0) =>
        /\ ~EntryPasses(file.chain, ret.index + 1)
        /\ \A j \in 1..ret.index : EntryPasses(file.chain, j)

\* C8: a verify_chain() step changes neither the in-memory chain nor the
\* persisted document, whatever it reports.
C8_VerifyChangesNothing ==
    [][ret'.op = "verify" => (chain' = chain /\ file' = file)]_vars

C8_Witness ==
    /\ ret.op = "verify"
    /\ ~ret.ok
    /\ file.kind = "doc"
    /\ file # save_chain(chain)

\* C9: right after a reset the in-memory chain is one genesis block with
\* previous_hash "0" and the timestamp of the reset, and the persisted
\* document is that one-block chain under the expected version.
C9_ResetYieldsFreshGenesis ==
    ret.op = "reset" =>
        /\ Len(chain) = 1
        /\ chain[1].data = GenesisData
        /\ chain[1].previous_hash = Zero
        /\ chain[1].timestamp = clock
        /\ chain[1].data_hash = calculate_data_hash(GenesisData)
        /\ chain[1].hash = calculate_hash(chain[1].data_hash, Zero, clock)
        /\ file.kind = "doc"
        /\ file.version = BLOCKCHAIN_VERSION
        /\ Len(file.chain) = 1
        /\ file.chain[1].absent = {}
        /\ from_dict(file.chain[1]) = chain[1]

C9_Witness ==
    /\ ret.op = "reset"
    /\ ret.arg = 3
    /\ clock = 2
    /\ Len(chain) = 1
    /\ Len(file.chain) = 1

\* C10: after a start from a store that is absent, no JSON, a legacy list
\* or of another version, the in-memory chain is one genesis block and the
\* persisted document is that one-block chain under the expected version.
C10_UnusableStoreIsRewritten ==
    (ret.op = "init" /\ ret.store \in {"absent", "corrupt", "list", "version"}) =>
        /\ Len(chain) = 1
        /\ chain[1].data = GenesisData
        /\ chain[1].previous_hash = Zero
        /\ file.kind = "doc"
        /\ file.version = BLOCKCHAIN_VERSION
        /\ Len(file.chain) = 1
        /\ file.chain[1].absent = {}
        /\ from_dict(file.chain[1]) = chain[1]

\* ---------------------------------------------------------------------
\* Claims about concurrent requests.

\* Thread p ran add_block past line 106: its block is in the chain.
Appended(p) ==
    /\ hop[p] = "add"
    /\ pc[p] \in {"s_lock", "s_open", "s_dump", "done"}
    /\ nb[p] # NoBlock

NoReset == \A q \in Threads : hop[q] # "reset"

\* C11: when two concurrent adds have both appended a block built on the
\* same tail (and no reset replaced the chain), the chain holds two entries
\* with the same previous_hash, the later of which does not link to the
\* entry before it: the linked-list invariant is broken.
C11_SameTailAppendedTwice ==
    \A p, q \in Threads :
        ( /\ p < q
          /\ Appended(p)
          /\ Appended(q)
          /\ NoReset
          /\ nb[p].previous_hash = nb[q].previous_hash ) =>
            \E i, j \in 1..Len(chain) :
                /\ i < j
                /\ j > 1
                /\ chain[i].previous_hash = chain[j].previous_hash
                /\ chain[j].previous_hash # chain[j - 1].hash

C11_Witness ==
    /\ Appended(1)
    /\ Appended(2)
    /\ pc[1] = "done"
    /\ pc[2] = "done"
    /\ harg[1] # harg[2]
    /\ Len(chain) = 3
    /\ chain[2].previous_hash = chain[3].previous_hash
    /\ chain[3].previous_hash # chain[2].hash
    /\ file = save_chain(chain)

\* C12: a thread that is writing or reading the document holds the lock,
\* a reader never sees a partially written document, and a thread that has
\* not started or has returned does not hold the lock.
C12_FileAccessUnderLock ==
    \A p \in Threads :
        /\ pc[p] \in {"s_open", "s_dump", "v_read"} => lock = p
        /\ pc[p] = "v_read" => file.kind # "partial"
        /\ pc[p] \in {"idle", "done"} => lock # p

C12_Witness ==
    \E p, q \in Threads :
        /\ pc[p] = "s_dump"
        /\ file.kind = "partial"
        /\ pc[q] = "v_lock"
        /\ lock = p

SelfConsistent(e) ==
    /\ e.absent = {}
    /\ e.timestamp # NoTs
    /\ e.data_hash = calculate_data_hash(e.data)
    /\ e.hash = calculate_hash(e.data_hash, e.previous_hash, e.timestamp)

BrokenLink(c, i) == i > 1 /\ i <= Len(c) /\ c[i].previous_hash # c[i - 1].hash

\* C14: after a start from a document of the expected version whose entries
\* are all self-consistent and whose first broken predecessor link is at
\* index i, the in-memory chain is the entries before i.
C14_LoadChecksLinks ==
    ( /\ ret.op = "init"
      /\ ret.store = "doc"
      /\ \A k \in 1..Len(file.chain) : SelfConsistent(file.chain[k])
      /\ \E i \in 1..Len(file.chain) : BrokenLink(file.chain, i) ) =>
        \E i \in 1..Len(file.chain) :
            /\ BrokenLink(file.chain, i)
            /\ \A k \in 1..(i - 1) : ~BrokenLink(file.chain, k)
            /\ chain = [k \in 1..(i - 1) |-> from_dict(file.chain[k])]

\* C15: after a start from a document of the expected version in which
\* some entry lacks a required field, the in-memory chain is a single fresh
\* genesis block, never a prefix of the stored entries.
C15_MissingFieldAbandonsLoad ==
    ( /\ ret.op = "init"
      /\ ret.store = "doc"
      /\ \E i \in 1..Len(file.chain) : file.chain[i].absent # {} ) =>
        chain = <<create_genesis_block(clock)>>

\* The first stored index at which load_chain finds a hash mismatch, every
\* entry up to it having all its keys; 0 when there is none.
LoadAccepts(e, now) ==
    LET b == Block(e.data, e.previous_hash, e.timestamp, e.data_hash, e.hash, now)
    IN  calculate_hash(b.data_hash, b.previous_hash, b.timestamp) = e.hash

TamperDetectedAt(c, i, now) ==
    /\ i \in 1..Len(c)
    /\ \A k \in 1..i : c[k].absent = {}
    /\ \A k \in 1..(i - 1) : LoadAccepts(c[k], now)
    /\ ~LoadAccepts(c[i], now)

\* ---------------------------------------------------------------------
\* Claims about concurrent requests, continued.

Running(p) == pc[p] \notin {"idle", "done"}

\* C16: under fair scheduling every started request eventually returns, and
\* a thread never waits for the lock while holding it itself.
C16_EveryRequestReturns ==
    /\ \A p \in Threads : Running(p) ~> (pc[p] = "done")
    /\ [](\A p \in Threads : pc[p] \in {"s_lock", "v_lock"} => lock # p)

C16_Witness ==
    \E p, q \in Threads :
        /\ pc[p] = "s_lock"
        /\ lock = q
        /\ pc[q] \in {"s_open", "s_dump", "v_read"}

Quiescent == phase = "up" /\ \A p \in Threads : ~Running(p)

\* C17: started from an absent store, whenever no request is in progress
\* the persisted document holds exactly the in-memory chain.
C17_QuiescentStoreEqualsMemory ==
    (Quiescent /\ ret.store = "absent") => file = save_chain(chain)

C17_Witness ==
    /\ Quiescent
    /\ ret.store = "absent"
    /\ \E p, q \in Threads :
          /\ hop[p] = "reset"
          /\ pc[p] = "done"
          /\ Appended(q)
          /\ pc[q] = "done"
          /\ Len(chain) = 2
          /\ chain[2] = nb[q]
          /\ chain[2].previous_hash # chain[1].hash
    /\ file = save_chain(chain)

\* C18: no two entries of the in-memory chain carry the same data_hash.
C18_NoTwoEntriesShareDataHash ==
    \A i, j \in 1..Len(chain) :
        i < j => chain[i].data_hash # chain[j].data_hash

\* C19: after a start that detected a hash mismatch in a document of the
\* expected version, the persisted document holds exactly the recovered
\* in-memory chain and verify_chain on it reports valid.
C19_RecoveryRewritesDocument ==
    ( /\ ret.op = "init"
      /\ ret.store = "doc"
      /\ \E i \in 1..Len(file.chain) : TamperDetectedAt(file.chain, i, clock) ) =>
        /\ file = save_chain(chain)
        /\ verify_chain(file).ok

\* C20: once a reset and an add that were the only requests have both
\* returned, the chain is the new genesis alone or the new genesis followed
\* by one entry linked to it.
C20_AddAfterResetLinksToNewGenesis ==
    \A p, q \in Threads :
        ( /\ hop[p] = "reset"
          /\ pc[p] = "done"
          /\ hop[q] = "add"
          /\ pc[q] = "done"
          /\ \A r \in Threads \ {p, q} : pc[r] = "idle" ) =>
            /\ chain[1].data = GenesisData
            /\ chain[1].previous_hash = Zero
            /\ \/ Len(chain) = 1
               \/ /\ Len(chain) = 2
                  /\ chain[2].previous_hash = chain[1].hash

====
